---- MODULE Spec2Model ----
(***************************************************************************)
(* Model of the Tootbot relay: the publication ledger (PostRecorder), the  *)
(* attachment set (MediaAttachment) and the publishing loop                *)
(* (MastodonPublisher.make_post), driven by the polling main loop.         *)
(***************************************************************************)
EXTENDS Integers, Sequences, FiniteSets, TLC

(***************************************************************************)
(* Bounds of the model.                                                    *)
(***************************************************************************)
\* number of reddit submissions the listing source can return
NumPosts == 3

(***************************************************************************)
(* The world outside the program: the submissions reddit lists and the     *)
(* files their links resolve to.  Tables are indexed by submission number; *)
(* only the first NumPosts entries are listed by the source.               *)
(***************************************************************************)
\* python's None, as it appears in lists of file paths
None == "None"

\* submission.id
PostId == <<"p1", "p2", "p3", "p4", "p5", "p6">>

\* submission.url: p3 is a cross-post of the link of p1, p6 of the link of p2
PostUrl == <<"u1", "u2", "u1", "u4", "u5", "u2">>

\* url of the toot the destination answers with when it publishes a submission
TootUrl == <<"t1", "t2", "t3", "t4", "t5", "t6">>

\* the files a submission's link resolves to, in provider order: local path
\* and sha256 of the bytes served (f1 and f2 carry the same bytes)
PostFiles ==
    << << [path |-> "f1", sum |-> "c1"] >>,
       << [path |-> "f2", sum |-> "c1"], [path |-> "f3", sum |-> "c2"] >>,
       << [path |-> "f4", sum |-> "c3"] >>,
       << >>,
       << [path |-> "f5", sum |-> "c2"] >>,
       << [path |-> "f6", sum |-> "c3"], [path |-> "f7", sum |-> "c3"] >> >>

Submission(n) ==
    [id |-> PostId[n], url |-> PostUrl[n], toot |-> TootUrl[n], files |-> PostFiles[n]]

AllFiles == UNION {{PostFiles[n][i] : i \in 1..Len(PostFiles[n])} : n \in 1..Len(PostFiles)}

Paths == {f.path : f \in AllFiles}

\* sha256 of the bytes stored at a downloaded path
Sha256(path) == (CHOOSE f \in AllFiles : f.path = path).sum

\* texts of the errors the destination can raise
MastodonErrors == {"E1"}

(***************************************************************************)
(* Ledger texts.                                                           *)
(***************************************************************************)
\* the header row PostRecorder writes into a new cache file
HeaderRow == <<"Reddit post ID", "Date and time", "Post link", "Media Checksum">>

\* time.strftime("%d/%m/%Y") + ' ' + time.strftime("%H:%M:%S"); the clock is not modelled
Date == "01/01/2021 00:00:00"

SkippedAllPosted == "Mastodon: Skipped because all images have already been posted"

SkippedNonMedia == "Skipping, non-media posts disabled or media file not found"

\* 'Error while posting toot: %s' % mastodon_error
ErrorText(mastodon_error) ==
    CASE mastodon_error = "E1" -> "Error while posting toot: E1"

(***************************************************************************)
(* Configuration (config.ini): fixed for the life of a behaviour.          *)
(***************************************************************************)
\* [Subreddits]: (subreddit, hashtags) pairs; in the second two subreddits share their hashtags
SubredditConfigs ==
    { << [name |-> "s1", tags |-> "a"], [name |-> "s2", tags |-> "b"] >>,
      << [name |-> "s1", tags |-> "a"], [name |-> "s2", tags |-> "a"] >> }

\* PromoSettings.PromoEvery
PromoEveryValues == {0, 1}

VARIABLES
    config,               \* Configuration: media_only, promo_every, subreddits
    cache_exists,         \* os.path.exists(cache_file)
    cache_file,           \* the ledger file: sequence of csv rows
    asked,                \* the identifier of the last call of duplicate_check
    value,                \* what that call returned
    disk,                 \* paths of the files present in the media folder
    number_attachments,   \* local of make_post: len(media_paths) right after the fetch
    attached,             \* attachments.media_paths after _remove_posted_earlier
    media_paths,          \* attachments.media_paths when make_post is done with the post
    num_non_promo_posts,  \* MastodonPublisher.num_non_promo_posts
    number_of_errors,     \* MastodonConfig.number_of_errors
    posts,                \* the dictionary handed to make_post: <<hashtags, source_posts>> items
    src,                  \* position of the outer loop of make_post in posts.items()
    idx,                  \* position of the inner loop in source_posts
    break_to_mainloop,    \* local flag of make_post
    pc,                   \* "idle" between cycles, "loop" inside make_post
    trace,                \* calls make_post made in the current cycle, in order
    reddit_post,          \* the submission a MediaAttachment is built for
    fetcher,              \* the ImageHelper method get_media called for it
    returned,             \* the list file_paths get_media returned
    call,                 \* the last method called on the MediaAttachment, with its argument
    args,                 \* the arguments of the last call of get_caption
    caption               \* what that call returned

\* the ledger as PostRecorder sees it
recorder == <<cache_exists, cache_file, asked, value>>

\* the attachment set of the candidate make_post works on
attachment == <<number_attachments, attached, media_paths>>

\* the counters that live as long as the process
counters == <<num_non_promo_posts, number_of_errors>>

\* the loops of make_post
loop == <<posts, src, idx, break_to_mainloop, pc>>

\* a MediaAttachment looked at on its own
media == <<reddit_post, fetcher, returned, call>>

\* get_caption looked at on its own
captioning == <<args, caption>>

vars == <<config, recorder, disk, attachment, counters, loop, trace, media, captioning>>

\* no MediaAttachment is looked at on its own
NoMedia == reddit_post = <<>> /\ fetcher = "" /\ returned = <<>> /\ call = <<>>

\* get_caption is not looked at on its own
NoCaption == args = <<>> /\ caption = <<>>

\* one observed call: op is examine, skip, fetch, fetch_error, media_post, media_post_error,
\* status_post or status_post_error
Ev(op, id, sum, promo) == [op |-> op, id |-> id, sum |-> sum, promo |-> promo]

(***************************************************************************)
(* Python dictionaries keep insertion order; they are sequences of         *)
(* <<key, value>> pairs with distinct keys.                                *)
(***************************************************************************)
DictHas(d, k) == \E i \in 1..Len(d) : d[i][1] = k

DictGet(d, k) == d[CHOOSE i \in 1..Len(d) : d[i][1] = k][2]

\* d[k] = v
DictSet(d, k, v) ==
    IF DictHas(d, k)
    THEN [i \in 1..Len(d) |-> IF d[i][1] = k THEN <<k, v>> ELSE d[i]]
    ELSE Append(d, <<k, v>>)

\* d.pop(k)
DictPop(d, k) == SelectSeq(d, LAMBDA e : e[1] # k)

(***************************************************************************)
(* PostRecorder (control.py).                                              *)
(***************************************************************************)
\* the fields of all rows of a ledger file
Fields(file) == UNION {{file[r][f] : f \in 1..Len(file[r])} : r \in 1..Len(file)}

\* a lookup that looks at the post id column only
duplicate_check_FirstColumn(identifier) ==
    \E r \in 1..Len(cache_file) : cache_file[r][1] = identifier

\* for row in reader: if identifier in row: value = True
duplicate_check(identifier) ==
    \E r \in 1..Len(cache_file) : \E f \in 1..Len(cache_file[r]) : cache_file[r][f] = identifier

\* a writer that leaves the checksum column empty
log_post_NoChecksum(file, reddit_id, post_url, shared_url, check_sum) ==
    Append(file, <<reddit_id, Date, post_url, shared_url, "">>)

\* writerow([reddit_id, date, post_url, shared_url, check_sum]) in append mode
log_post(file, reddit_id, post_url, shared_url, check_sum) ==
    Append(file, <<reddit_id, Date, post_url, shared_url, check_sum>>)

(***************************************************************************)
(* MediaAttachment (collect.py).                                           *)
(***************************************************************************)
\* the list of paths get_media returns: the path of every file whose download
\* answered 200 (ok), None for the others
get_media(submission, ok) ==
    [i \in 1..Len(submission.files) |-> IF i \in ok THEN submission.files[i].path ELSE None]

\* __init__: self.media_paths[sha256.hexdigest()] = media_path for each path that is not None
\* (sha256[path] is the checksum of the bytes the file at path holds)
RECURSIVE MediaAttachmentInit(_, _, _)
MediaAttachmentInit(file_paths, sha256, dict) ==
    IF file_paths = <<>> THEN dict
    ELSE LET media_path == Head(file_paths) IN
         MediaAttachmentInit(Tail(file_paths), sha256,
             IF media_path # None THEN DictSet(dict, sha256[media_path], media_path) ELSE dict)

\* os.remove(media_path) raises OSError: the file is not there, or cannot be removed
RemoveFails(media_path, files, unremovable) ==
    media_path \notin files \/ media_path \in unremovable

\* destroy_one_attachment on the pair (media_paths, files on disk): os.remove raises
\* OSError for the paths in unremovable, and pop is inside the same try block
destroy_one_attachment(att, checksum, unremovable) ==
    LET media_path == DictGet(att.media_paths, checksum) IN
    IF media_path # None /\ RemoveFails(media_path, att.disk, unremovable)
    THEN att
    ELSE [media_paths |-> DictPop(att.media_paths, checksum),
          disk |-> att.disk \ {media_path}]

\* the loop of destroy: one try block around the whole loop, so the first OSError ends it
RECURSIVE DestroyLoop(_, _, _)
DestroyLoop(dict, files, unremovable) ==
    IF dict = <<>> THEN files
    ELSE LET media_path == Head(dict)[2] IN
         IF media_path = None THEN DestroyLoop(Tail(dict), files, unremovable)
         ELSE IF RemoveFails(media_path, files, unremovable) THEN files
         ELSE DestroyLoop(Tail(dict), files \ {media_path}, unremovable)

\* destroy: the files left on disk; media_paths = {} afterwards in every case
destroy(att, unremovable) ==
    [media_paths |-> <<>>, disk |-> DestroyLoop(att.media_paths, att.disk, unremovable)]

(***************************************************************************)
(* MastodonPublisher (publish.py).                                         *)
(***************************************************************************)
\* the list checksums of _remove_posted_earlier: empty or previously posted attachments
PostedEarlier(dict) ==
    SelectSeq([i \in 1..Len(dict) |-> dict[i][1]],
              LAMBDA checksum : DictGet(dict, checksum) = None \/ duplicate_check(checksum))

RECURSIVE DestroyEach(_, _, _)
DestroyEach(att, checksums, unremovable) ==
    IF checksums = <<>> THEN att
    ELSE DestroyEach(destroy_one_attachment(att, Head(checksums), unremovable),
                     Tail(checksums), unremovable)

\* _remove_posted_earlier(attachments)
remove_posted_earlier(att, unremovable) ==
    DestroyEach(att, PostedEarlier(att.media_paths), unremovable)

\* _post_attachments: media_post then log_post for each attachment in dictionary order;
\* the destination raises MastodonError at upload number failAt (0: never).
\* Yields the ledger and the trace after the uploads that returned.
RECURSIVE post_attachments(_, _, _, _, _)
post_attachments(dict, post_id, failAt, file, calls) ==
    IF dict = <<>> \/ failAt = 1 THEN [file |-> file, calls |-> calls]
    ELSE LET checksum == Head(dict)[1]
             media_path == Head(dict)[2]
         IN post_attachments(Tail(dict), post_id, IF failAt = 0 THEN 0 ELSE failAt - 1,
                             log_post(file, post_id, "", media_path, checksum),
                             Append(calls, Ev("media_post", post_id, checksum, FALSE)))

\* a make_post without the guard
AlreadyPosted_Never(post) == FALSE

\* a guard that asks the ledger for the id only
AlreadyPosted_IdOnly(post) == duplicate_check(post.id)

\* the guard of make_post on a candidate: already in the ledger by id or by url
AlreadyPosted(post) == duplicate_check(post.id) \/ duplicate_check(post.url)

\* if self.num_non_promo_posts >= self.promo.every > 0
PromoDue == num_non_promo_posts >= config.promo_every /\ config.promo_every > 0

\* a policy check that lets every post through
MayPost_IgnoresPolicy(dict) == TRUE

\* (self.media_only and len(attachments.media_paths) > 0) or (not self.media_only)
MayPost(dict) == (config.media_only /\ Len(dict) > 0) \/ ~config.media_only

(***************************************************************************)
(* The main loop (tootbot.py) and the listing source.                      *)
(***************************************************************************)
\* get_reddit_posts: the submissions of a subreddit in listing order
\* (odd submissions belong to s1, even ones to s2)
get_reddit_posts(subreddit) ==
    LET mine(n) == IF subreddit = "s1" THEN n % 2 = 1 ELSE n % 2 = 0
        listed == SelectSeq([n \in 1..NumPosts |-> n], mine)
    IN [i \in 1..Len(listed) |-> Submission(listed[i])]

\* reddit_posts[hashtags] = get_reddit_posts(subreddit) for each configured subreddit
RECURSIVE BuildPosts(_, _)
BuildPosts(subreddits, dict) ==
    IF subreddits = <<>> THEN dict
    ELSE BuildPosts(Tail(subreddits),
                    DictSet(dict, Head(subreddits).tags, get_reddit_posts(Head(subreddits).name)))

Init ==
    /\ config \in [media_only : BOOLEAN, promo_every : PromoEveryValues,
                   subreddits : SubredditConfigs]
    /\ cache_exists = TRUE
    /\ cache_file = <<HeaderRow>>
    /\ asked = ""
    /\ value = FALSE
    /\ disk = {}
    /\ number_attachments = 0
    /\ attached = <<>>
    /\ media_paths = <<>>
    /\ num_non_promo_posts = 0
    /\ number_of_errors = 0
    /\ posts = <<>>
    /\ src = 1
    /\ idx = 1
    /\ break_to_mainloop = FALSE
    /\ pc = "idle"
    /\ trace = <<>>
    /\ NoMedia
    /\ NoCaption

\* loops that do not stop at break_to_mainloop
InLoop_IgnoresFlag == pc = "loop" /\ src <= Len(posts)

\* the loops of make_post are running and not left through break_to_mainloop
InLoop == pc = "loop" /\ ~break_to_mainloop /\ src <= Len(posts)

source_posts == posts[src][2]

AtPost == InLoop /\ idx <= Len(source_posts)

\* one iteration of the main loop up to the call of make_post
StartCycle ==
    /\ pc = "idle"
    /\ posts' = BuildPosts(config.subreddits, <<>>)
    /\ src' = 1
    /\ idx' = 1
    /\ break_to_mainloop' = FALSE
    /\ trace' = <<>>
    /\ pc' = "loop"
    /\ UNCHANGED <<media, captioning, config, recorder, disk, attachment, counters>>

\* the process is stopped and started again: the objects are constructed anew,
\* the cache file exists and is left as it is
Restart ==
    /\ pc = "idle"
    /\ num_non_promo_posts' = 0
    /\ number_of_errors' = 0
    /\ number_attachments' = 0
    /\ attached' = <<>>
    /\ media_paths' = <<>>
    /\ UNCHANGED <<media, captioning, config, recorder, disk, loop, trace>>

\* the inner loop is exhausted: next item of posts.items()
NextSource ==
    /\ InLoop
    /\ idx > Len(source_posts)
    /\ src' = src + 1
    /\ idx' = 1
    /\ UNCHANGED <<media, captioning, config, recorder, disk, attachment, counters, posts, break_to_mainloop,
                   pc, trace>>

\* make_post returns: the outer loop is exhausted or left through break_to_mainloop
Return ==
    /\ pc = "loop"
    /\ break_to_mainloop \/ src > Len(posts)
    /\ pc' = "idle"
    /\ UNCHANGED <<media, captioning, config, recorder, disk, attachment, counters, posts, src, idx,
                   break_to_mainloop, trace>>

\* the candidate is in the ledger: 'Skipping %s because it was already posted'
SkipPosted ==
    /\ AtPost
    /\ LET post == source_posts[idx] IN
       /\ AlreadyPosted(post)
       /\ trace' = trace \o <<Ev("examine", post.id, "", FALSE), Ev("skip", post.id, "", FALSE)>>
    /\ idx' = idx + 1
    /\ UNCHANGED <<media, captioning, config, recorder, disk, attachment, counters, posts, src,
                   break_to_mainloop, pc>>

(***************************************************************************)
(* One iteration of the inner loop of make_post on a candidate that is not *)
(* in the ledger.  The environment decides which downloads answer 200      *)
(* (ok), whether a download raises (requests raises on a connection error  *)
(* and save_file does not catch it), which files os.remove cannot delete   *)
(* (unremovable) and at which call the destination raises MastodonError.   *)
(***************************************************************************)
Downloaded(post, ok) == {post.files[i].path : i \in ok}

\* attachments = MediaAttachment(...) with the files it left in the media folder
Fetched(post, ok) ==
    [media_paths |-> MediaAttachmentInit(get_media(post, ok),
                                         [path \in Paths |-> Sha256(path)], <<>>),
     disk |-> disk \cup Downloaded(post, ok)]

\* a check that misses the post with a single attachment
AllPostedEarlier_OffByOne(number, dict) == number > 1 /\ Len(dict) = 0

\* number_attachments > 0 and len(attachments.media_paths) == 0
AllPostedEarlier(number, dict) == number > 0 /\ Len(dict) = 0

\* an error handler that only counts the error
LogError_Nothing(file, post_id, mastodon_error) == file

\* the row make_post logs when the destination raised
LogError(file, post_id, mastodon_error) ==
    log_post(file, post_id, ErrorText(mastodon_error), "", "")

Taken(post) == <<Ev("examine", post.id, "", FALSE), Ev("fetch", post.id, "", FALSE)>>

\* an except block that does not count the error
CountError_Keeps(errors) == errors

\* self.mastodon_config.number_of_errors += 1
CountError(errors) == errors + 1

\* a download raises inside MediaAttachment(...): the exception leaves make_post
FetchRaises ==
    /\ AtPost
    /\ LET post == source_posts[idx] IN
       /\ ~AlreadyPosted(post)
       /\ \E raiseAt \in 1..Len(post.files) : \E ok \in SUBSET (1..(raiseAt - 1)) :
            /\ disk' = disk \cup Downloaded(post, ok)
            /\ trace' = trace \o Taken(post) \o <<Ev("fetch_error", post.id, "", FALSE)>>
    /\ pc' = "idle"
    /\ UNCHANGED <<media, captioning, config, recorder, attachment, counters, posts, src, idx, break_to_mainloop>>

\* every attachment was posted earlier: one ledger row, then continue with the next candidate
SkipAllPosted ==
    /\ AtPost
    /\ LET post == source_posts[idx] IN
       /\ ~AlreadyPosted(post)
       /\ \E ok \in SUBSET (1..Len(post.files)) : \E unremovable \in SUBSET Downloaded(post, ok) :
            LET attachments == Fetched(post, ok)
                remaining == remove_posted_earlier(attachments, unremovable)
            IN /\ AllPostedEarlier(Len(attachments.media_paths), remaining.media_paths)
               /\ cache_file' = log_post(cache_file, post.id, SkippedAllPosted, "", "")
               /\ number_attachments' = Len(attachments.media_paths)
               /\ attached' = remaining.media_paths
               /\ media_paths' = remaining.media_paths
               /\ disk' = remaining.disk
               /\ trace' = trace \o Taken(post)
    /\ idx' = idx + 1
    /\ UNCHANGED <<media, captioning, config, cache_exists, asked, value, counters, posts, src,
                   break_to_mainloop, pc>>

\* media posts only and no attachment: one ledger row, destroy, back to the main loop
SkipNonMedia ==
    /\ AtPost
    /\ LET post == source_posts[idx] IN
       /\ ~AlreadyPosted(post)
       /\ \E ok \in SUBSET (1..Len(post.files)) : \E unremovable \in SUBSET Downloaded(post, ok) :
            LET attachments == Fetched(post, ok)
                remaining == remove_posted_earlier(attachments, unremovable)
                destroyed == destroy(remaining, unremovable)
            IN /\ ~AllPostedEarlier(Len(attachments.media_paths), remaining.media_paths)
               /\ ~MayPost(remaining.media_paths)
               /\ cache_file' = log_post(cache_file, post.id, SkippedNonMedia, "", "")
               /\ number_attachments' = Len(attachments.media_paths)
               /\ attached' = remaining.media_paths
               /\ media_paths' = destroyed.media_paths
               /\ disk' = destroyed.disk
               /\ trace' = trace \o Taken(post)
    /\ break_to_mainloop' = TRUE
    /\ UNCHANGED <<media, captioning, config, cache_exists, asked, value, counters, posts, src, idx, pc>>

\* the try block succeeds: uploads, status_post, the row of the toot, the counters
PostToot ==
    /\ AtPost
    /\ LET post == source_posts[idx] IN
       /\ ~AlreadyPosted(post)
       /\ \E ok \in SUBSET (1..Len(post.files)) : \E unremovable \in SUBSET Downloaded(post, ok) :
            LET attachments == Fetched(post, ok)
                remaining == remove_posted_earlier(attachments, unremovable)
                promo == PromoDue
                counter == IF promo THEN -1 ELSE num_non_promo_posts
                uploaded == post_attachments(remaining.media_paths, post.id, 0,
                                             cache_file, trace \o Taken(post))
                destroyed == destroy(remaining, unremovable)
            IN /\ ~AllPostedEarlier(Len(attachments.media_paths), remaining.media_paths)
               /\ MayPost(remaining.media_paths)
               /\ cache_file' = log_post(uploaded.file, post.id, post.toot, post.url, "")
               /\ trace' = Append(uploaded.calls, Ev("status_post", post.id, "", promo))
               /\ num_non_promo_posts' = counter + 1
               /\ number_of_errors' = 0
               /\ number_attachments' = Len(attachments.media_paths)
               /\ attached' = remaining.media_paths
               /\ media_paths' = destroyed.media_paths
               /\ disk' = destroyed.disk
    /\ break_to_mainloop' = TRUE
    /\ UNCHANGED <<media, captioning, config, cache_exists, asked, value, posts, src, idx, pc>>

\* the destination raises MastodonError at upload number failAt, or at status_post
\* when failAt is one more than the number of attachments
PostTootError ==
    /\ AtPost
    /\ LET post == source_posts[idx] IN
       /\ ~AlreadyPosted(post)
       /\ \E ok \in SUBSET (1..Len(post.files)) : \E unremovable \in SUBSET Downloaded(post, ok) :
            LET attachments == Fetched(post, ok)
                remaining == remove_posted_earlier(attachments, unremovable)
                promo == PromoDue
                counter == IF promo THEN -1 ELSE num_non_promo_posts
                destroyed == destroy(remaining, unremovable)
            IN /\ ~AllPostedEarlier(Len(attachments.media_paths), remaining.media_paths)
               /\ MayPost(remaining.media_paths)
               /\ \E failAt \in 1..(Len(remaining.media_paths) + 1) :
                  \E mastodon_error \in MastodonErrors :
                    LET uploaded == post_attachments(remaining.media_paths, post.id, failAt,
                                                     cache_file, trace \o Taken(post))
                        failed == IF failAt <= Len(remaining.media_paths)
                                  THEN Ev("media_post_error", post.id,
                                          remaining.media_paths[failAt][1], FALSE)
                                  ELSE Ev("status_post_error", post.id, "", promo)
                    IN /\ cache_file' = LogError(uploaded.file, post.id, mastodon_error)
                       /\ trace' = Append(uploaded.calls, failed)
               /\ num_non_promo_posts' = counter
               /\ number_of_errors' = CountError(number_of_errors)
               /\ number_attachments' = Len(attachments.media_paths)
               /\ attached' = remaining.media_paths
               /\ media_paths' = destroyed.media_paths
               /\ disk' = destroyed.disk
    /\ break_to_mainloop' = TRUE
    /\ UNCHANGED <<media, captioning, config, cache_exists, asked, value, posts, src, idx, pc>>

Next ==
    \/ StartCycle
    \/ Restart
    \/ NextSource
    \/ Return
    \/ SkipPosted
    \/ FetchRaises
    \/ SkipAllPosted
    \/ SkipNonMedia
    \/ PostToot
    \/ PostTootError

Spec == Init /\ [][Next]_vars

(***************************************************************************)
(* PostRecorder on its own: construction, log_post and duplicate_check     *)
(* called with arbitrary arguments on a cache file that may not exist yet. *)
(* pc is "new" before the recorder is constructed, "ready" after, and      *)
(* "checked" right after a call of duplicate_check.                        *)
(***************************************************************************)
\* rows a ledger holds at most in this specification
MaxRows == 3

\* values log_post is called with
Words == {"a", ""}

\* identifiers duplicate_check is asked for
Queries == {"a", "b", "", "Date and time", Date}

InitRecorder ==
    /\ config = [media_only |-> FALSE, promo_every |-> 0,
                 subreddits |-> << [name |-> "s1", tags |-> "a"] >>]
    /\ cache_exists \in BOOLEAN
    /\ cache_file = IF cache_exists THEN <<HeaderRow>> ELSE <<>>
    /\ asked = ""
    /\ value = FALSE
    /\ disk = {}
    /\ number_attachments = 0
    /\ attached = <<>>
    /\ media_paths = <<>>
    /\ num_non_promo_posts = 0
    /\ number_of_errors = 0
    /\ posts = <<>>
    /\ src = 1
    /\ idx = 1
    /\ break_to_mainloop = FALSE
    /\ pc = "new"
    /\ trace = <<>>
    /\ NoMedia
    /\ NoCaption

\* PostRecorder.__init__ without the os.path.exists test: the file is opened
\* for writing every time
Construct_Truncates ==
    /\ cache_exists' = TRUE
    /\ cache_file' = <<HeaderRow>>
    /\ pc' = "ready"
    /\ UNCHANGED <<media, captioning, config, asked, value, disk, attachment, counters, posts, src, idx,
                   break_to_mainloop, trace>>

\* PostRecorder.__init__: a missing cache file is created with the header row
Construct ==
    /\ cache_exists' = TRUE
    /\ cache_file' = IF cache_exists THEN cache_file ELSE <<HeaderRow>>
    /\ pc' = "ready"
    /\ UNCHANGED <<media, captioning, config, asked, value, disk, attachment, counters, posts, src, idx,
                   break_to_mainloop, trace>>

\* a call of log_post
LogPost ==
    /\ pc # "new"
    /\ Len(cache_file) < MaxRows
    /\ \E reddit_id \in Words, post_url \in Words, shared_url \in Words, check_sum \in Words :
         cache_file' = log_post(cache_file, reddit_id, post_url, shared_url, check_sum)
    /\ pc' = "ready"
    /\ UNCHANGED <<media, captioning, config, cache_exists, asked, value, disk, attachment, counters, posts,
                   src, idx, break_to_mainloop, trace>>

\* a call of duplicate_check
DuplicateCheck ==
    /\ pc # "new"
    /\ \E x \in Queries :
         /\ asked' = x
         /\ value' = duplicate_check(x)
    /\ pc' = "checked"
    /\ UNCHANGED <<media, captioning, config, cache_exists, cache_file, disk, attachment, counters, posts,
                   src, idx, break_to_mainloop, trace>>

NextRecorder ==
    \/ Construct
    \/ LogPost
    \/ DuplicateCheck

SpecRecorder == InitRecorder /\ [][NextRecorder]_vars

(***************************************************************************)
(* MediaAttachment on its own: built for one submission, then used and     *)
(* destroyed while files may disappear from the media folder.              *)
(* pc is "new" before the MediaAttachment is constructed, "built" right    *)
(* after, "raised" when the constructor raised, "used" once something      *)
(* happened to it or to its files, and "destroyed" after destroy().        *)
(***************************************************************************)
\* number of images the link of a submission resolves to, at most
MaxItems == 2

\* number of the site names below the url of a submission contains, at most
MaxSites == 2

\* default of the parameter max_images of get_reddit_gallery and get_imgur_image
max_images == 4

\* the site names get_media looks for in the url
Sites == {"i.redd.it", "i.reddituploads.com", "v.redd.it", "imgur.com", "gfycat.com", "giphy.com"}

\* the images a link can resolve to: id is the id of the gallery item, path the
\* local path a reddit or generic fetcher saves it to, ext the extension of its
\* url, e the kind in media_metadata, ok whether its download answers 200, sum
\* the sha256 of the bytes served, gif whether these bytes decode as a GIF
Images ==
    << [id |-> 30, path |-> "m1.jpg", ext |-> ".jpg",  e |-> "Image",
        ok |-> TRUE,  sum |-> "h1", gif |-> FALSE],
       [id |-> 10, path |-> "m2.gif", ext |-> ".gifv", e |-> "Image",
        ok |-> TRUE,  sum |-> "h2", gif |-> TRUE],
       [id |-> 20, path |-> "m3.mp4", ext |-> ".mp4",  e |-> "AnimatedImage",
        ok |-> TRUE,  sum |-> "h3", gif |-> FALSE],
       [id |-> 40, path |-> "m4.jpg", ext |-> ".jpg",  e |-> "Image",
        ok |-> FALSE, sum |-> "h4", gif |-> FALSE],
       [id |-> 50, path |-> "m5.gif", ext |-> ".gif",  e |-> "Image",
        ok |-> FALSE, sum |-> "h5", gif |-> TRUE] >>

\* lists of distinct images, MaxItems at most
ImageLists ==
    {s \in UNION {[1..n -> 1..Len(Images)] : n \in 0..MaxItems} :
       \A i, j \in 1..Len(s) : i # j => s[i] # s[j]}

\* the submissions: is_gallery is "absent" when the object has no such
\* attribute, else the text of its value; sites are the site names the url
\* contains; media is whether submission.media is set; images is what the
\* link resolves to (gallery items, album images, or the one file in front)
RedditPosts ==
    [is_gallery : {"absent", "True", "False"},
     sites : {s \in SUBSET Sites : Cardinality(s) <= MaxSites},
     media : BOOLEAN,
     images : {[i \in 1..Len(s) |-> Images[s[i]]] : s \in ImageLists}]

\* save_file: the file is written and its path returned when the download
\* answers 200, else None; files maps the paths written so far to their bytes
save_file(image, file_path, files) ==
    IF image.ok
    THEN [path |-> file_path, files |-> (file_path :> image.sum) @@ files]
    ELSE [path |-> None, files |-> files]

\* a gallery whose items are taken in the order reddit lists them
SortedById_Unsorted(items) == items

\* sorted(reddit_post.gallery_data['items'], key=lambda x: x['id'])
RECURSIVE SortedById(_)
SortedById(items) ==
    IF items = <<>> THEN <<>>
    ELSE LET low == CHOOSE i \in 1..Len(items) :
                      \A j \in 1..Len(items) : items[i].id <= items[j].id
         IN <<items[low]>> \o
            SortedById(SubSeq(items, 1, low - 1) \o SubSeq(items, low + 1, Len(items)))

\* the loop of get_reddit_gallery over the sorted items; m is the parameter max_images
RECURSIVE GalleryLoop(_, _, _, _)
GalleryLoop(items, m, files, paths) ==
    IF items = <<>> THEN [file_paths |-> paths, files |-> files, raised |-> FALSE]
    ELSE LET item == Head(items) IN
         IF item.e = "Image"
         THEN LET saved == save_file(item, item.path, files)
                  appended == Append(paths, saved.path)
              IN IF Len(appended) = m
                 THEN [file_paths |-> appended, files |-> saved.files, raised |-> FALSE]
                 ELSE GalleryLoop(Tail(items), m, saved.files, appended)
         ELSE GalleryLoop(Tail(items), m, files, paths)

\* get_reddit_gallery: a submission that is no gallery has no gallery_data
get_reddit_gallery(post, m, files) ==
    IF post.is_gallery # "True"
    THEN [file_paths |-> <<>>, files |-> files, raised |-> TRUE]
    ELSE GalleryLoop(SortedById(post.images), m, files, <<>>)

\* self.save_dir + '/' + imgur_id + '_' + str(len(imgur_paths)) + file_extension
ImgurPath(n, file_extension) ==
    CASE file_extension = ".gif" -> <<"id_0.gif", "id_1.gif", "id_2.gif", "id_3.gif">>[n + 1]
      [] file_extension = ".jpg" -> <<"id_0.jpg", "id_1.jpg", "id_2.jpg", "id_3.jpg">>[n + 1]

\* checksums of the bytes that decode as a GIF
GifSums == {Images[i].sum : i \in {j \in 1..Len(Images) : Images[j].gif}}

\* a check that leaves the file it rejects on disk
check_imgur_gif_KeepsFile(file_path, files) ==
    IF file_path \notin DOMAIN files
    THEN [raised |-> TRUE, value |-> FALSE, files |-> files]
    ELSE [raised |-> FALSE, value |-> files[file_path] \in GifSums, files |-> files]

\* a check that takes every downloaded file for a GIF
check_imgur_gif_Accepts(file_path, files) ==
    [raised |-> file_path \notin DOMAIN files, value |-> TRUE, files |-> files]

\* _check_imgur_gif: PIL raises when there is no file at file_path; a file that
\* is not a GIF is removed
check_imgur_gif(file_path, files) ==
    IF file_path \notin DOMAIN files
    THEN [raised |-> TRUE, value |-> FALSE, files |-> files]
    ELSE IF files[file_path] \in GifSums
    THEN [raised |-> FALSE, value |-> TRUE, files |-> files]
    ELSE [raised |-> FALSE, value |-> FALSE,
          files |-> [p \in DOMAIN files \ {file_path} |-> files[p]]]

\* the loop of get_imgur_image over image_urls
RECURSIVE ImgurLoop(_, _, _)
ImgurLoop(images, files, imgur_paths) ==
    IF images = <<>> THEN [file_paths |-> imgur_paths, files |-> files, raised |-> FALSE]
    ELSE LET image == Head(images)
             file_extension == IF image.ext \in {".gifv", ".mp4"} THEN ".gif" ELSE image.ext
             file_path == ImgurPath(Len(imgur_paths), file_extension)
             saved == save_file(image, file_path, files)
             checked == IF file_extension # ".gif"
                        THEN [raised |-> FALSE, value |-> TRUE, files |-> saved.files]
                        ELSE check_imgur_gif(file_path, saved.files)
             appended == IF checked.value THEN Append(imgur_paths, saved.path) ELSE imgur_paths
         IN IF checked.raised
            THEN [file_paths |-> imgur_paths, files |-> checked.files, raised |-> TRUE]
            ELSE IF Len(appended) = max_images
            THEN [file_paths |-> appended, files |-> checked.files, raised |-> FALSE]
            ELSE ImgurLoop(Tail(images), checked.files, appended)

get_imgur_image(post, files) == ImgurLoop(post.images, files, <<>>)

\* the fetchers that return one path or None: the file in front is downloaded;
\* None when the page names no file
get_one_image(post, files) ==
    IF post.images = <<>>
    THEN [file_paths |-> <<None>>, files |-> files, raised |-> FALSE]
    ELSE LET saved == save_file(post.images[1], post.images[1].path, files)
         IN [file_paths |-> <<saved.path>>, files |-> saved.files, raised |-> FALSE]

\* the if-chain of get_media: the method of ImageHelper it calls, "none" when
\* it calls none; hasattr(self.reddit_post, "is_gallery") comes first
Dispatch(post) ==
    IF post.is_gallery # "absent" THEN "get_reddit_gallery"
    ELSE IF {"i.redd.it", "i.reddituploads.com"} \cap post.sites # {} THEN "get_reddit_image"
    ELSE IF "v.redd.it" \in post.sites /\ ~post.media THEN "none"
    ELSE IF "v.redd.it" \in post.sites THEN "get_reddit_video"
    ELSE IF "imgur.com" \in post.sites THEN "get_imgur_image"
    ELSE IF "gfycat.com" \in post.sites THEN "get_gfycat_image"
    ELSE IF "giphy.com" \in post.sites THEN "get_giphy_image"
    ELSE "get_generic_image"

\* get_media of the MediaAttachment of post: the list of paths it returns and
\* the files it leaves in the media folder
Fetch(post, files) ==
    LET method == Dispatch(post) IN
    CASE method = "get_reddit_gallery" -> get_reddit_gallery(post, max_images, files)
      [] method = "get_imgur_image" -> get_imgur_image(post, files)
      [] method = "none" -> [file_paths |-> <<>>, files |-> files, raised |-> FALSE]
      [] OTHER -> get_one_image(post, files)

InitMedia ==
    /\ config = [media_only |-> FALSE, promo_every |-> 0,
                 subreddits |-> << [name |-> "s1", tags |-> "a"] >>]
    /\ cache_exists = TRUE
    /\ cache_file = <<HeaderRow>>
    /\ asked = ""
    /\ value = FALSE
    /\ disk = {}
    /\ number_attachments = 0
    /\ attached = <<>>
    /\ media_paths = <<>>
    /\ num_non_promo_posts = 0
    /\ number_of_errors = 0
    /\ posts = <<>>
    /\ src = 1
    /\ idx = 1
    /\ break_to_mainloop = FALSE
    /\ pc = "new"
    /\ trace = <<>>
    /\ reddit_post \in RedditPosts
    /\ fetcher = ""
    /\ returned = <<>>
    /\ call = [op |-> "", checksum |-> ""]
    /\ NoCaption

\* MediaAttachment.__init__: get_media, then one entry per path that is not None
ConstructAttachment ==
    /\ pc = "new"
    /\ LET got == Fetch(reddit_post, <<>>) IN
       /\ fetcher' = Dispatch(reddit_post)
       /\ disk' = disk \cup DOMAIN got.files
       /\ IF got.raised
          THEN /\ pc' = "raised"
               /\ UNCHANGED <<returned, media_paths>>
          ELSE /\ pc' = "built"
               /\ returned' = got.file_paths
               /\ media_paths' = MediaAttachmentInit(got.file_paths, got.files, <<>>)
    /\ call' = [op |-> "__init__", checksum |-> ""]
    /\ UNCHANGED <<captioning, config, recorder, number_attachments, attached, counters,
                   posts, src, idx, break_to_mainloop, trace, reddit_post>>

\* a file of the media folder is removed by someone else
Vanish ==
    /\ pc \in {"built", "used"}
    /\ \E path \in disk : disk' = disk \ {path}
    /\ pc' = "used"
    /\ UNCHANGED <<media, captioning, config, recorder, attachment, counters, posts, src,
                   idx, break_to_mainloop, trace>>

\* a call of destroy_one_attachment with a checksum of the mapping
DestroyOne ==
    /\ pc \in {"built", "used"}
    /\ \E i \in 1..Len(media_paths) :
         LET checksum == media_paths[i][1]
             att == destroy_one_attachment([media_paths |-> media_paths, disk |-> disk],
                                           checksum, {})
         IN /\ media_paths' = att.media_paths
            /\ disk' = att.disk
            /\ call' = [op |-> "destroy_one_attachment", checksum |-> checksum]
    /\ pc' = "used"
    /\ UNCHANGED <<captioning, config, recorder, number_attachments, attached, counters,
                   posts, src, idx, break_to_mainloop, trace, reddit_post, fetcher, returned>>

\* a call of destroy
Destroy ==
    /\ pc \in {"built", "used"}
    /\ LET att == destroy([media_paths |-> media_paths, disk |-> disk], {}) IN
       /\ media_paths' = att.media_paths
       /\ disk' = att.disk
    /\ call' = [op |-> "destroy", checksum |-> ""]
    /\ pc' = "destroyed"
    /\ UNCHANGED <<captioning, config, recorder, number_attachments, attached, counters,
                   posts, src, idx, break_to_mainloop, trace, reddit_post, fetcher, returned>>

NextMedia ==
    \/ ConstructAttachment
    \/ Vanish
    \/ DestroyOne
    \/ Destroy

SpecMedia == InitMedia /\ [][NextMedia]_vars

(***************************************************************************)
(* get_reddit_gallery on its own, called for a gallery with some value of  *)
(* max_images.  pc is "new" before the call and "returned" after it.       *)
(***************************************************************************)
\* number of items of a gallery, at most
MaxGallery == 3

\* the largest max_images get_reddit_gallery is called with
TopImages == 2

\* the galleries: submissions with is_gallery True and up to MaxGallery items
Galleries ==
    {[is_gallery |-> "True", sites |-> {}, media |-> FALSE,
      images |-> [i \in 1..Len(s) |-> Images[s[i]]]] :
       s \in {t \in UNION {[1..n -> 1..Len(Images)] : n \in 0..MaxGallery} :
                \A i, j \in 1..Len(t) : i # j => t[i] # t[j]}}

InitGallery ==
    /\ config = [media_only |-> FALSE, promo_every |-> 0,
                 subreddits |-> << [name |-> "s1", tags |-> "a"] >>]
    /\ cache_exists = TRUE
    /\ cache_file = <<HeaderRow>>
    /\ asked = ""
    /\ value = FALSE
    /\ disk = {}
    /\ number_attachments = 0
    /\ attached = <<>>
    /\ media_paths = <<>>
    /\ num_non_promo_posts = 0
    /\ number_of_errors = 0
    /\ posts = <<>>
    /\ src = 1
    /\ idx = 1
    /\ break_to_mainloop = FALSE
    /\ pc = "new"
    /\ trace = <<>>
    /\ reddit_post \in Galleries
    /\ fetcher = ""
    /\ returned = <<>>
    /\ call = [op |-> "", max_images |-> 0]
    /\ NoCaption

\* a call of get_reddit_gallery(reddit_post, max_images)
GetRedditGallery ==
    /\ pc = "new"
    /\ \E m \in 1..TopImages :
         LET got == get_reddit_gallery(reddit_post, m, <<>>) IN
         /\ returned' = got.file_paths
         /\ disk' = disk \cup DOMAIN got.files
         /\ call' = [op |-> "get_reddit_gallery", max_images |-> m]
    /\ fetcher' = "get_reddit_gallery"
    /\ pc' = "returned"
    /\ UNCHANGED <<captioning, config, recorder, attachment, counters, posts, src, idx,
                   break_to_mainloop, trace, reddit_post>>

NextGallery == GetRedditGallery

SpecGallery == InitGallery /\ [][NextGallery]_vars

(***************************************************************************)
(* get_caption on its own, called with arbitrary arguments.  Texts are     *)
(* sequences of characters.  pc is "new" before the call, "returned" after *)
(* it returned and "raised" after it raised IndexError.                    *)
(***************************************************************************)
\* length of a title, at most
MaxTitle == 4

\* the largest max_len get_caption is called with
TopLen == 10

\* submission.title
Titles == UNION {[1..n -> {"a", "b"}] : n \in 0..MaxTitle}

\* the hashtags of a subreddit in config.ini: None, or tags separated by commas
HashTagTexts == {<<None>>, <<"x">>, <<"x", ",", " ", "y">>}

\* RedditHelper.global_hash_tags
GlobalHashTags == {<<>>, << <<"g">> >>}

\* submission.shortlink
Shortlinks == {<<"/">>, <<"/", "/", "/">>}

\* PromoSettings.PromoMessage, handed to get_caption when a promo is due
PromoMessages == {<<None>>, <<"P">>}

\* s.strip(): blanks at both ends are dropped
RECURSIVE strip(_)
strip(s) ==
    IF s = <<>> THEN s
    ELSE IF Head(s) = " " THEN strip(Tail(s))
    ELSE IF s[Len(s)] = " " THEN strip(SubSeq(s, 1, Len(s) - 1))
    ELSE s

\* s.split(','): the pieces between the commas; word is the piece being read
RECURSIVE split(_, _)
split(s, word) ==
    IF s = <<>> THEN <<word>>
    ELSE IF Head(s) = "," THEN <<word>> \o split(Tail(s), <<>>)
    ELSE split(Tail(s), Append(word, Head(s)))

\* for tag in hashtags_for_post: hashtag_string += '#' + tag + ' '
RECURSIVE hashtag_string(_)
hashtag_string(hashtags_for_post) ==
    IF hashtags_for_post = <<>> THEN <<>>
    ELSE <<"#">> \o Head(hashtags_for_post) \o <<" ">> \o hashtag_string(Tail(hashtags_for_post))

\* hashtags_for_subreddit + self.global_hash_tags
hashtags_for_post(add_hash_tags, global_hash_tags) ==
    IF add_hash_tags = <<None>> THEN global_hash_tags
    ELSE LET pieces == split(add_hash_tags, <<>>)
         IN [i \in 1..Len(pieces) |-> strip(pieces[i])] \o global_hash_tags

\* ' \n \n%s' % self.promo_message
promo_string(promo_message) ==
    IF promo_message = <<None>> \/ promo_message = <<>> THEN <<>>
    ELSE <<" ", "\n", " ", "\n">> \o promo_message

\* get_caption: caption_max_length -= len(shortlink) - len(hashtag_string) - len(promo_string)
\* takes the difference of the three lengths off max_len, and title[n] is one
\* character of the title (counted from the end when n is negative)
get_caption(a) ==
    LET hashtags == hashtag_string(hashtags_for_post(a.add_hash_tags, a.global_hash_tags))
        promo == promo_string(a.promo_message)
        caption_max_length ==
            a.max_len - (Len(a.shortlink) - Len(hashtags) - Len(promo))
        n == caption_max_length - 2
        tail == hashtags \o a.shortlink \o promo
    IN IF Len(a.title) < caption_max_length
       THEN [raised |-> FALSE, caption |-> a.title \o <<" ">> \o tail]
       ELSE IF n >= 0
       THEN [raised |-> FALSE, caption |-> <<a.title[n + 1]>> \o <<".", ".", ".", " ">> \o tail]
       ELSE IF n >= 0 - Len(a.title)
       THEN [raised |-> FALSE,
             caption |-> <<a.title[Len(a.title) + n + 1]>> \o <<".", ".", ".", " ">> \o tail]
       ELSE [raised |-> TRUE, caption |-> <<>>]

InitCaption ==
    /\ config = [media_only |-> FALSE, promo_every |-> 0,
                 subreddits |-> << [name |-> "s1", tags |-> "a"] >>]
    /\ cache_exists = TRUE
    /\ cache_file = <<HeaderRow>>
    /\ asked = ""
    /\ value = FALSE
    /\ disk = {}
    /\ number_attachments = 0
    /\ attached = <<>>
    /\ media_paths = <<>>
    /\ num_non_promo_posts = 0
    /\ number_of_errors = 0
    /\ posts = <<>>
    /\ src = 1
    /\ idx = 1
    /\ break_to_mainloop = FALSE
    /\ pc = "new"
    /\ trace = <<>>
    /\ NoMedia
    /\ args \in [title : Titles, add_hash_tags : HashTagTexts,
                 global_hash_tags : GlobalHashTags, shortlink : Shortlinks,
                 promo_message : PromoMessages, max_len : 1..TopLen]
    /\ caption = <<>>

\* a call of get_caption
GetCaption ==
    /\ pc = "new"
    /\ LET got == get_caption(args) IN
       /\ caption' = got.caption
       /\ pc' = IF got.raised THEN "raised" ELSE "returned"
    /\ UNCHANGED <<media, config, recorder, disk, attachment, counters, posts, src, idx,
                   break_to_mainloop, trace, args>>

NextCaption == GetCaption

SpecCaption == InitCaption /\ [][NextCaption]_vars

(***************************************************************************)
(* Vocabulary of the properties.                                           *)
(***************************************************************************)
\* what a step added to the trace and to the ledger (for steps inside make_post)
NewCalls == SubSeq(trace', Len(trace) + 1, Len(trace'))

NewRows == SubSeq(cache_file', Len(cache_file) + 1, Len(cache_file'))

Last(seq) == seq[Len(seq)]

\* calls that reach out to the network
NetworkOps ==
    {"fetch", "fetch_error", "media_post", "media_post_error", "status_post", "status_post_error"}

PublishOps == {"status_post", "status_post_error"}

ErrorOps == {"media_post_error", "status_post_error"}

ErrorTexts == {ErrorText(e) : e \in MastodonErrors}

CallsOf(calls, ops) == SelectSeq(calls, LAMBDA e : e.op \in ops)

\* the step takes the candidate up and builds its attachment set
TakesUp == AtPost /\ \E i \in 1..Len(NewCalls) : NewCalls[i].op = "fetch"

Builds == TakesUp /\ \A i \in 1..Len(NewCalls) : NewCalls[i].op # "fetch_error"

\* a candidate stands later than the current one in posts.items()
LaterCandidate ==
    /\ src <= Len(posts)
    /\ \/ idx < Len(posts[src][2])
       \/ \E s \in (src + 1)..Len(posts) : Len(posts[s][2]) > 0

\* C1: a candidate whose id or url the ledger holds when the loop reaches it is
\* not fetched, not uploaded, not published, and no ledger row is appended for it
C1_LedgerPostsAreSkipped ==
    [][ \A n \in 1..NumPosts :
          (/\ AtPost
           /\ source_posts[idx].id = PostId[n]
           /\ duplicate_check(PostId[n]) \/ duplicate_check(PostUrl[n]))
          => /\ cache_file' = cache_file
             /\ disk' = disk
             /\ \A i \in 1..Len(NewCalls) : NewCalls[i].op \notin NetworkOps ]_vars

\* a candidate was skipped although its id is not in the ledger: its url is
C1_Witness ==
    \E i \in 1..Len(trace) : trace[i].op = "skip" /\ ~duplicate_check(trace[i].id)

\* C2: once make_post has taken a post up, the ledger holds its id when the
\* cycle is over, so every later cycle skips it
C2_TakenUpOnce ==
    pc = "idle" => \A i \in 1..Len(trace) : trace[i].op = "fetch" => duplicate_check(trace[i].id)

\* C3: a cycle makes at most one status_post call, and it is the last thing the
\* cycle does: nothing is examined or fetched after it
C3_OnePublishPerCycle ==
    \A i \in 1..Len(trace) : trace[i].op \in PublishOps => i = Len(trace)

\* a cycle published and returned while a later candidate was still unposted
C3_Witness ==
    /\ pc = "idle"
    /\ trace # <<>>
    /\ Last(trace).op = "status_post"
    /\ \E s \in 1..Len(posts) : \E j \in 1..Len(posts[s][2]) :
         /\ ~duplicate_check(posts[s][2][j].id)
         /\ ~duplicate_check(posts[s][2][j].url)

\* C4: a successful publish of a post with k remaining attachments appends k rows
\* (post id, path, checksum), one per returned upload and in upload order, then
\* one row (post id, toot url, shared url); in every step the checksum rows are
\* those of the uploads that returned
C4_RowsOfAPublishedPost ==
    [][ AtPost =>
          LET post == source_posts[idx]
              uploads == CallsOf(NewCalls, {"media_post"})
              sumRows == SelectSeq(NewRows, LAMBDA row : row[5] # "")
          IN /\ Len(sumRows) = Len(uploads)
             /\ \A j \in 1..Len(uploads) :
                  sumRows[j][1] = uploads[j].id /\ sumRows[j][5] = uploads[j].sum
             /\ (trace' # trace /\ Last(trace').op = "status_post")
                => LET k == Len(attached') IN
                   /\ Len(NewRows) = k + 1
                   /\ Len(uploads) = k
                   /\ \A j \in 1..k :
                        NewRows[j] = <<post.id, Date, "", attached'[j][2], attached'[j][1]>>
                   /\ NewRows[k + 1] = <<post.id, Date, post.toot, post.url, "">> ]_vars

\* a post was published with two attachments
C4_Witness ==
    /\ trace # <<>>
    /\ Last(trace).op = "status_post"
    /\ Len(attached) = 2
    /\ Len(cache_file) >= 4

\* C5: when the destination raises, a row with the post id and the error text is
\* appended, the ledger then answers the id, and a post with such a row is never
\* taken up again
C5_ErrorsAreTerminal ==
    [][ /\ (AtPost /\ trace' # trace /\ Last(trace').op \in ErrorOps)
           => /\ Last(cache_file')[1] = source_posts[idx].id
              /\ Last(cache_file')[3] \in ErrorTexts
              /\ duplicate_check(source_posts[idx].id)'
        /\ \A r \in 1..Len(cache_file) :
             cache_file[r][3] \in ErrorTexts
             => /\ cache_file'[r] = cache_file[r]
                /\ AtPost => \A i \in 1..Len(NewCalls) :
                      NewCalls[i].id = cache_file[r][1] => NewCalls[i].op \notin NetworkOps ]_vars

\* a post that failed at the destination is skipped by a later cycle
C5_Witness ==
    \E i \in 1..Len(trace) :
      /\ trace[i].op = "skip"
      /\ \E r \in 1..Len(cache_file) :
           cache_file[r][1] = trace[i].id /\ cache_file[r][3] \in ErrorTexts

\* C6 as stated: after a destination failure the scan of the same call goes on
\* to the next candidate
C6_ScanContinuesAfterFailure ==
    (/\ pc = "idle"
     /\ trace # <<>>
     /\ LaterCandidate)
    => \A i \in 1..Len(trace) :
         trace[i].op \in ErrorOps => \E j \in (i + 1)..Len(trace) : trace[j].op = "examine"

\* C6 amended: a destination failure ends the scan of the call, as a publish does
C6_FailureEndsTheScan ==
    \A i \in 1..Len(trace) :
      trace[i].op \in ErrorOps => i = Len(trace) /\ break_to_mainloop

\* the call returned after a failure with an unposted candidate still ahead
C6_Witness ==
    /\ pc = "idle"
    /\ trace # <<>>
    /\ Last(trace).op \in ErrorOps
    /\ \/ \E j \in (idx + 1)..Len(posts[src][2]) :
            ~duplicate_check(posts[src][2][j].id) /\ ~duplicate_check(posts[src][2][j].url)
       \/ \E s \in (src + 1)..Len(posts) : \E j \in 1..Len(posts[s][2]) :
            ~duplicate_check(posts[s][2][j].id) /\ ~duplicate_check(posts[s][2][j].url)

\* C7: no attachment whose checksum the ledger holds is uploaded: the attachment
\* set used for the upload holds only checksums not yet seen
C7_OnlyUnseenUploaded ==
    [][ Builds =>
          /\ \A j \in 1..Len(attached') : ~duplicate_check(attached'[j][1])
          /\ \A i \in 1..Len(NewCalls) :
               NewCalls[i].op \in {"media_post", "media_post_error"}
               => ~duplicate_check(NewCalls[i].sum) ]_vars

\* C8 as stated: the row of a post whose attachments were all posted earlier has
\* an empty destination url
C8_SkipRowHasEmptyPostLink ==
    [][ (Builds /\ number_attachments' > 0 /\ attached' = <<>>)
        => Len(NewRows) = 1 /\ NewRows[1][1] = source_posts[idx].id /\ NewRows[1][3] = "" ]_vars

\* C8 amended: such a post gets exactly one row, with the skip text in the post
\* link column and empty shared url and checksum; nothing is uploaded or
\* published for it, and the scan goes on with the next candidate
C8_AllPostedEarlierIsSkipped ==
    [][ (Builds /\ number_attachments' > 0 /\ attached' = <<>>)
        => /\ NewRows = << <<source_posts[idx].id, Date, SkippedAllPosted, "", "">> >>
           /\ \A i \in 1..Len(NewCalls) : NewCalls[i].op \in {"examine", "fetch"}
           /\ idx' = idx + 1
           /\ src' = src
           /\ ~break_to_mainloop' ]_vars

\* a post was skipped because its only fetched attachment was posted earlier
C8_Witness ==
    /\ number_attachments > 0
    /\ attached = <<>>
    /\ Last(cache_file)[3] = SkippedAllPosted
    /\ trace # <<>>
    /\ Last(trace).op = "fetch"

C10_DuplicateCheckIsMembership ==
    [][ pc' = "checked"
        => /\ value' = (asked' \in Fields(cache_file))
           /\ cache_file' = cache_file
           /\ cache_exists' = cache_exists ]_vars

\* the identifier was found although no row has it as its post id
C10_Witness ==
    /\ pc = "checked"
    /\ value
    /\ asked # ""
    /\ Len(cache_file) >= 2
    /\ \A r \in 1..Len(cache_file) : cache_file[r][1] # asked

\* C11: the ledger is append-only: whatever is called (construction of a
\* PostRecorder, duplicate_check, log_post), the rows the file held before the
\* call are still there, unchanged and in the same order, and a call of
\* log_post adds exactly one row at the end
C11_LedgerIsAppendOnly ==
    [][ /\ Len(cache_file') >= Len(cache_file)
        /\ SubSeq(cache_file', 1, Len(cache_file)) = cache_file
        /\ LogPost => Len(cache_file') = Len(cache_file) + 1 ]_vars

\* two rows were logged after the header row, and the header row is still the
\* first row
C11_Witness ==
    /\ pc = "ready"
    /\ Len(cache_file) = 3
    /\ cache_file[1] = HeaderRow
    /\ Len(cache_file[2]) = 5

\* C12: once make_post has finished with a post it took up (published, failed
\* at the destination, skipped because all its attachments were posted
\* earlier, skipped as non-media), none of the files downloaded for the post
\* is left in the media directory and the mapping of its attachment set is
\* empty
C12_NothingLeftBehind ==
    [][ Builds =>
          /\ media_paths' = <<>>
          /\ \A i \in 1..Len(source_posts[idx].files) :
               source_posts[idx].files[i].path \notin disk' ]_vars

\* C13: destroy() deletes every tracked file that is still on disk, even when
\* other tracked files are already missing, and leaves the mapping empty
C13_DestroyDeletesAllThatExist ==
    [][ (pc \in {"built", "used"} /\ pc' = "destroyed")
        => /\ media_paths' = <<>>
           /\ \A i \in 1..Len(media_paths) : media_paths[i][2] \notin disk' ]_vars

\* C14: after destroy_one_attachment(checksum) the mapping has no entry for
\* checksum, whether or not the file could be deleted
C14_EntryAlwaysRemoved ==
    call.op = "destroy_one_attachment" => ~DictHas(media_paths, call.checksum)

\* C15: right after construction every entry of the mapping has a path that is
\* not None, that get_media returned, and whose file is on disk; the entry is
\* that of a file that was downloaded and, for an Imgur file saved as .gif,
\* found to be a GIF; a failed download and a rejected file have no entry
C15_EntriesAreDownloadedFiles ==
    pc = "built" =>
      LET images == {reddit_post.images[i] : i \in 1..Len(reddit_post.images)}
          Rejected(image) ==
              /\ fetcher = "get_imgur_image"
              /\ image.ext \in {".gif", ".gifv", ".mp4"}
              /\ ~image.gif
      IN /\ \A i \in 1..Len(media_paths) :
              /\ media_paths[i][2] # None
              /\ media_paths[i][2] \in disk
              /\ \E j \in 1..Len(returned) : returned[j] = media_paths[i][2]
              /\ \E image \in images :
                   image.sum = media_paths[i][1] /\ image.ok /\ ~Rejected(image)
         /\ \A image \in images :
              (~image.ok \/ Rejected(image)) => ~DictHas(media_paths, image.sum)

\* an Imgur album of a thumbnail that is no GIF and a real GIF: the mapping
\* holds the GIF only
C15_Witness ==
    /\ pc = "built"
    /\ fetcher = "get_imgur_image"
    /\ Len(reddit_post.images) = 2
    /\ reddit_post.images[1].sum = "h3"
    /\ media_paths = << <<"h2", "id_0.gif">> >>

\* C20: get_media calls exactly one fetcher, that of the first rule that
\* matches: gallery flag true, then i.redd.it or i.reddituploads.com, v.redd.it,
\* imgur.com, gfycat.com, giphy.com in the url, else the generic fetcher; a post
\* whose gallery flag is not true is never sent to the gallery fetcher
C20_FirstMatchingRule ==
    fetcher # "" =>
      fetcher = IF reddit_post.is_gallery = "True" THEN "get_reddit_gallery"
                ELSE IF {"i.redd.it", "i.reddituploads.com"} \cap reddit_post.sites # {}
                THEN "get_reddit_image"
                ELSE IF "v.redd.it" \in reddit_post.sites THEN "get_reddit_video"
                ELSE IF "imgur.com" \in reddit_post.sites THEN "get_imgur_image"
                ELSE IF "gfycat.com" \in reddit_post.sites THEN "get_gfycat_image"
                ELSE IF "giphy.com" \in reddit_post.sites THEN "get_giphy_image"
                ELSE "get_generic_image"

\* the parts a caption is made of, for the arguments of the call
C_Hashtags == hashtag_string(hashtags_for_post(args.add_hash_tags, args.global_hash_tags))

C_Rest == <<" ">> \o C_Hashtags \o args.shortlink \o promo_string(args.promo_message)

\* the parts that are never cut leave room for an ellipsis within max_len
C_Room == Len(C_Rest) + 3 <= args.max_len

\* C16: whatever the title, the hashtags, the shortlink and the promo text
\* (that leave such room), the caption get_caption returns is at most max_len
\* characters long
C16_CaptionFits ==
    (pc = "returned" /\ C_Room) => Len(caption) <= args.max_len

\* C17: get_caption cuts the title exactly when len(title) + 1 + len(hashtags)
\* + len(shortlink) + len(promo) is more than max_len, and uses the whole title
\* otherwise
C17_TruncatesExactlyWhenTooLong ==
    (pc = "returned" /\ C_Room) =>
      ((Len(args.title) + Len(C_Rest) > args.max_len) <=> (caption # args.title \o C_Rest))

\* C18: the caption is the title part, a space, the hashtag tokens, the
\* shortlink and the promo text, in this order; the title part is the whole
\* title when it fits, else the prefix of the title that the remaining budget
\* leaves room for, followed by the ellipsis
C18_CaptionComposition ==
    (pc = "returned" /\ C_Room) =>
      IF Len(args.title) + Len(C_Rest) <= args.max_len
      THEN caption = args.title \o C_Rest
      ELSE LET room == args.max_len - Len(C_Rest) - 3
               kept == IF room < 0 THEN 0 ELSE room
           IN caption = SubSeq(args.title, 1, kept) \o <<".", ".", ".">> \o C_Rest

\* C19: with promo_every = N > 0 the promo text is carried by exactly the
\* published post that makes the count of non-promo posts reach N, and the
\* counter is 0 after that post; with N <= 0 no post carries it
C19_PromoOnTheNthPost ==
    [][ (AtPost /\ trace' # trace /\ Last(trace').op = "status_post" /\ num_non_promo_posts >= 0)
        => IF config.promo_every > 0
           THEN /\ Last(trace').promo <=> (num_non_promo_posts + 1 = config.promo_every)
                /\ Last(trace').promo => num_non_promo_posts' = 0
           ELSE ~Last(trace').promo ]_vars

\* the items of the gallery whose declared type is 'Image'
C_Eligible ==
    {reddit_post.images[i] : i \in {j \in 1..Len(reddit_post.images) :
                                      reddit_post.images[j].e = "Image"}}

\* the number of items get_reddit_gallery is expected to take
C_Taken ==
    IF Cardinality(C_Eligible) < call.max_images
    THEN Cardinality(C_Eligible) ELSE call.max_images

\* media ids are m1 .. m5 in the order of the table Images
C_MediaIdRank(image) == CHOOSE i \in 1..Len(Images) : Images[i] = image

C_Published(post) ==
    \E r \in 1..Len(cache_file) : cache_file[r][1] = post.id /\ cache_file[r][3] = post.toot

\* C23 as stated: from an empty ledger, the successful publish of a post
\* appends exactly one row with the id of the post
C23_OneRowPerPublishedPost ==
    [][ (AtPost /\ cache_file = <<HeaderRow>> /\ trace' # trace
         /\ Last(trace').op = "status_post")
        => /\ Len(NewRows) = 1
           /\ NewRows[1][1] = source_posts[idx].id ]_vars

\* C23 amended: from an empty ledger, the successful publish of a post with k
\* attachments appends k + 1 rows, all with the id of the post, the last one
\* with the url of the toot; when a later run comes to the post it is skipped:
\* no row is appended, nothing is fetched, uploaded or published
C23_PublishedThenSkipped ==
    [][ /\ (AtPost /\ cache_file = <<HeaderRow>> /\ trace' # trace
            /\ Last(trace').op = "status_post")
           => /\ Len(NewRows) = Len(attached') + 1
              /\ \A r \in 1..Len(NewRows) : NewRows[r][1] = source_posts[idx].id
              /\ Last(NewRows)[3] = source_posts[idx].toot
              /\ \A r \in 1..Len(attached') : NewRows[r][3] = ""
        /\ (AtPost /\ C_Published(source_posts[idx]))
           => /\ cache_file' = cache_file
              /\ disk' = disk
              /\ idx' = idx + 1
              /\ \A i \in 1..Len(NewCalls) : NewCalls[i].op \notin NetworkOps ]_vars

\* the only post of the ledger was published with one attachment in one run
\* and skipped in the next
C23_Witness ==
    /\ Len(cache_file) = 3
    /\ cache_file[2][1] = cache_file[3][1]
    /\ cache_file[2][5] # ""
    /\ cache_file[3][3] \in {TootUrl[n] : n \in 1..Len(TootUrl)}
    /\ \E i \in 1..Len(trace) : trace[i].op = "skip" /\ trace[i].id = cache_file[3][1]

\* C24: whatever fails while the media of a post is fetched, the construction
\* of the MediaAttachment completes and make_post goes on to publish or skip
\* the post, ending with a ledger row for it
C24_FetchFailureIsNotFatal ==
    [][ TakesUp =>
          /\ Builds
          /\ NewRows # <<>>
          /\ Last(NewRows)[1] = source_posts[idx].id ]_vars

\* C25: a checksum row is in the ledger only for media of a post that was
\* published: a post that failed at the destination leaves no checksum row
C25_ChecksumsOnlyOfPublishedPosts ==
    \A r \in 1..Len(cache_file) :
      (Len(cache_file[r]) = 5 /\ cache_file[r][5] # "")
      => \E p \in 1..Len(cache_file) :
           /\ cache_file[p][1] = cache_file[r][1]
           /\ cache_file[p][3] \in {TootUrl[n] : n \in 1..Len(TootUrl)}

\* C26: after every call of make_post, with promo_every = N > 0, the counter of
\* non-promo posts is between 0 and N, also after the post that was to carry
\* the promo failed at the destination
C26_CounterInRange ==
    (pc = "idle" /\ config.promo_every > 0)
    => (0 <= num_non_promo_posts /\ num_non_promo_posts <= config.promo_every)

\* C27: number_of_errors counts the destination failures in a row: inside
\* make_post a successful publish sets it to 0, a destination error adds
\* exactly 1, and every other step (ledger skip, all-posted-earlier skip,
\* non-media skip) leaves it as it is
C27_ErrorsInARow ==
    [][ pc = "loop" =>
          IF trace' # trace /\ Last(trace').op = "status_post"
          THEN number_of_errors' = 0
          ELSE IF trace' # trace /\ Last(trace').op \in ErrorOps
          THEN number_of_errors' = number_of_errors + 1
          ELSE number_of_errors' = number_of_errors ]_vars

\* two destination failures in a row, and a later cycle that skipped a failed
\* post without touching the counter
C27_Witness ==
    /\ number_of_errors = 2
    /\ trace # <<>>
    /\ Last(trace).op = "skip"

\* the i-th call of the cycle took up a post that was then skipped for having
\* no media
C_NonMediaSkip(i) ==
    /\ trace[i].op = "fetch"
    /\ \E r \in 1..Len(cache_file) :
         cache_file[r][1] = trace[i].id /\ cache_file[r][3] = SkippedNonMedia

\* a candidate later in posts.items() has neither its id nor its url in the ledger
C_LaterUnposted ==
    /\ src <= Len(posts)
    /\ \/ \E j \in (idx + 1)..Len(posts[src][2]) :
            ~duplicate_check(posts[src][2][j].id) /\ ~duplicate_check(posts[src][2][j].url)
       \/ \E s \in (src + 1)..Len(posts) : \E j \in 1..Len(posts[s][2]) :
            ~duplicate_check(posts[s][2][j].id) /\ ~duplicate_check(posts[s][2][j].url)

\* C28 as stated: a non-media skip does not use up the cycle, the same call
\* goes on to the later candidates
C28_ScanContinuesAfterNonMediaSkip ==
    (/\ pc = "idle"
     /\ trace # <<>>
     /\ C_LaterUnposted)
    => \A i \in 1..Len(trace) :
         C_NonMediaSkip(i) => \E j \in (i + 1)..Len(trace) : trace[j].op = "examine"

\* C28 amended: a non-media skip ends the scan of the call, as a publish does
C28_NonMediaSkipEndsTheScan ==
    \A i \in 1..Len(trace) :
      C_NonMediaSkip(i) => i = Len(trace) /\ break_to_mainloop

\* the call returned after a non-media skip with an unposted candidate ahead
C28_Witness ==
    /\ pc = "idle"
    /\ trace # <<>>
    /\ C_NonMediaSkip(Len(trace))
    /\ C_LaterUnposted

\* a post of the dictionary handed to make_post has neither its id nor its url
\* in the ledger
C_ListedUnposted ==
    \E s \in 1..Len(posts) : \E j \in 1..Len(posts[s][2]) :
      ~duplicate_check(posts[s][2][j].id) /\ ~duplicate_check(posts[s][2][j].url)

\* the call took up a post and left a ledger row with its id
C_LoggedAPost ==
    \E i \in 1..Len(trace) : trace[i].op = "fetch" /\ duplicate_check(trace[i].id)

\* C29: a make_post call that finds a listed post with neither id nor url in
\* the ledger appends a ledger row with a listed post's id (the ledger only
\* grows, so a post still unposted when the call is over was unposted when it
\* began); the listing is therefore used up after finitely many calls
C29_EveryCallLogsAPost ==
    (pc = "idle" /\ posts # <<>> /\ C_ListedUnposted) => C_LoggedAPost

\* C30: the dictionary handed to make_post holds the posts of every configured
\* subreddit, also when two subreddits are configured with the same hashtags
C30_EverySourceIsScanned ==
    pc = "loop"
    => \A c \in 1..Len(config.subreddits) :
         LET listed == get_reddit_posts(config.subreddits[c].name) IN
         \A j \in 1..Len(listed) :
           \E s \in 1..Len(posts) : \E k \in 1..Len(posts[s][2]) : posts[s][2][k] = listed[j]
====
